---- MODULE Spec2Model ----
(***************************************************************************)
(* Model of the crypto price bot: the Telegram dispatcher of bot.py        *)
(* (per-user intent, command handlers, crypto_handler) and the CoinGecko   *)
(* client and chart renderer of parser.py.  Every handler is one action;   *)
(* the replies and calls a handler makes are recorded, in order, in the    *)
(* events of the last handled update.  The upstream API is the             *)
(* environment: each request is answered by any of a bounded set of        *)
(* responses (connection error, HTTP error status, well-formed body,       *)
(* body without the expected fields, body of an unexpected shape).         *)
(***************************************************************************)
EXTENDS Integers, Sequences, FiniteSets, TLC

VARIABLES intent, last

vars == <<intent, last>>

(***************************************************************************)
(* Bounds of the model.                                                    *)
(***************************************************************************)
\* longest list the upstream markets endpoint answers with
MaxMarkets == 6
\* longest price series the upstream market_chart endpoint answers with
MaxSeries == 2
\* number of chat users
NumUsers == 2

Users == 1..NumUsers

\* prices the upstream quotes
PriceVals == {7, 65000}

\* prices of the points of a series
SeriesVals == {1, 2}

\* plain-text messages a user sends
Texts == {"Toncoin", "TONCOIN", "Bitcoin", "The Error Coin"}

(***************************************************************************)
(* Python str operations, on strings as sequences of characters.           *)
(***************************************************************************)
UpperLetters == "ABCDEFGHIJKLMNOPQRSTUVWXYZ"

LowerLetters == "abcdefghijklmnopqrstuvwxyz"

CharAt(s, i) == SubSeq(s, i, i)

\* the lower-case letter of each upper-case letter, and the reverse
ToLower == [c \in {CharAt(UpperLetters, i) : i \in 1..Len(UpperLetters)} |->
               CharAt(LowerLetters, CHOOSE i \in 1..Len(UpperLetters) : CharAt(UpperLetters, i) = c)]

ToUpper == [c \in {CharAt(LowerLetters, i) : i \in 1..Len(LowerLetters)} |->
               CharAt(UpperLetters, CHOOSE i \in 1..Len(LowerLetters) : CharAt(LowerLetters, i) = c)]

IsUpperChar(c) == c \in DOMAIN ToLower

IsLowerChar(c) == c \in DOMAIN ToUpper

LowerChar(c) == IF IsUpperChar(c) THEN ToLower[c] ELSE c

UpperChar(c) == IF IsLowerChar(c) THEN ToUpper[c] ELSE c

RECURSIVE Lower(_)
\* str.lower()
Lower(s) ==
    IF Len(s) = 0 THEN ""
    ELSE LowerChar(CharAt(s, 1)) \o Lower(SubSeq(s, 2, Len(s)))

RECURSIVE Upper(_)
\* str.upper()
Upper(s) ==
    IF Len(s) = 0 THEN ""
    ELSE UpperChar(CharAt(s, 1)) \o Upper(SubSeq(s, 2, Len(s)))

RECURSIVE TitleFrom(_, _)
\* the rest of str.title(): inWord says whether the previous character is a letter
TitleFrom(s, inWord) ==
    IF Len(s) = 0 THEN ""
    ELSE LET c == CharAt(s, 1)
             cased == IsUpperChar(c) \/ IsLowerChar(c)
         IN  (IF inWord THEN LowerChar(c) ELSE UpperChar(c))
                 \o TitleFrom(SubSeq(s, 2, Len(s)), cased)

\* str.title()
Title(s) == TitleFrom(s, FALSE)

\* the substring test  t in s
Contains(s, t) ==
    \E i \in 1..(Len(s) - Len(t) + 1) : SubSeq(s, i, i + Len(t) - 1) = t

RECURSIVE Join(_, _)
\* sep.join(lines)
Join(lines, sep) ==
    IF Len(lines) = 0 THEN ""
    ELSE IF Len(lines) = 1 THEN lines[1]
    ELSE lines[1] \o sep \o Join(Tail(lines), sep)

(***************************************************************************)
(* JSON values of the upstream bodies, and the outcome of a Python call:   *)
(* a returned value or a raised exception.                                 *)
(***************************************************************************)
JObj(f) == [t |-> "object", v |-> f]

JArr(s) == [t |-> "array", v |-> s]

JNum(n) == [t |-> "number", v |-> n]

JStr(s) == [t |-> "string", v |-> s]

EmptyObj == JObj(<<>>)

Returned(x) == [raised |-> FALSE, exc |-> "", value |-> x]

Raised(e) == [raised |-> TRUE, exc |-> e, value |-> <<>>]

\* key in x  for a string key: membership in a dict's keys or in a list, a
\* TypeError for a number
PyIn(key, x) ==
    CASE x.t = "object" -> Returned(key \in DOMAIN x.v)
      [] x.t = "array"  -> Returned(\E i \in 1..Len(x.v) :
                                        x.v[i].t = "string" /\ x.v[i].v = key)
      [] OTHER          -> Raised("TypeError")

\* x[key]  for a string key: KeyError for a dict without it, TypeError otherwise
PyGet(x, key) ==
    IF x.t = "object"
    THEN IF key \in DOMAIN x.v THEN Returned(x.v[key]) ELSE Raised("KeyError")
    ELSE Raised("TypeError")

\* requests.get + raise_for_status + response.json(): the failures of all
\* three are requests.exceptions.RequestException
IsRequestException(resp) == resp.status \in {"connection_error", "http_error"}

\* what a parser function did and how it ended: the steps it took, in order,
\* and the value it returned or the exception it raised
Ran(steps, outcome) ==
    [steps |-> steps, raised |-> outcome.raised, exc |-> outcome.exc, value |-> outcome.value]

HttpGet(url) == [e |-> "http_get", url |-> url]

(***************************************************************************)
(* parser.py: get_crypto_price                                             *)
(***************************************************************************)
SERVICE_UNAVAILABLE == "Service temporarily unavailable - please try again later"

PRICE_NOT_AVAILABLE == "Price data not available at this time"

PriceUrl(crypto_name) ==
    "https://api.coingecko.com/api/v3/simple/price?ids=" \o crypto_name \o "&vs_currencies=usd"

\* f"${usd}"
PriceText(usd) == "$" \o ToString(usd)

\* the usd field read without the test that it is there
PriceOutcome_NoUsdCheck(crypto_name, resp) ==
    IF IsRequestException(resp) THEN Returned(SERVICE_UNAVAILABLE)
    ELSE LET data == resp.data
             hasName == PyIn(crypto_name, data)
         IN  IF hasName.raised THEN hasName
             ELSE IF ~hasName.value THEN Returned(PRICE_NOT_AVAILABLE)
             ELSE LET entry == PyGet(data, crypto_name)
                  IN  IF entry.raised THEN entry
                      ELSE LET usd == PyGet(entry.value, "usd")
                           IN  IF usd.raised THEN usd
                               ELSE Returned(PriceText(usd.value.v))

PriceOutcome(crypto_name, resp) ==
    IF IsRequestException(resp) THEN Returned(SERVICE_UNAVAILABLE)
    ELSE LET data == resp.data
             hasName == PyIn(crypto_name, data)
         IN  IF hasName.raised THEN hasName
             ELSE IF ~hasName.value THEN Returned(PRICE_NOT_AVAILABLE)
             ELSE IF data.t # "object" THEN Raised("TypeError")
             ELSE LET hasUsd == PyIn("usd", data.v[crypto_name])
                  IN  IF hasUsd.raised THEN hasUsd
                      ELSE IF hasUsd.value
                           THEN Returned(PriceText(data.v[crypto_name].v["usd"].v))
                           ELSE Returned(PRICE_NOT_AVAILABLE)

get_crypto_price(crypto_name, resp) ==
    Ran(<<HttpGet(PriceUrl(crypto_name))>>, PriceOutcome(crypto_name, resp))

(***************************************************************************)
(* parser.py: get_top_5_crypto_prices and get_top_5_crypto_list            *)
(***************************************************************************)
TOP5_UNAVAILABLE == "Couldn't retrieve top cryptocurrencies - please try again later"

\* per_page=5: the number of entries the markets request asks for
PerPage == 5

MarketsUrl ==
    "https://api.coingecko.com/api/v3/coins/markets?vs_currency=usd&order=market_cap_desc&per_page=5&page=1"

RECURSIVE KeysOf(_)
\* the keys of a dict, as the strings a loop over it visits
KeysOf(keys) ==
    IF keys = {} THEN <<>>
    ELSE LET k == CHOOSE k \in keys : TRUE
         IN  <<JStr(k)>> \o KeysOf(keys \ {k})

\* for crypto in data: the items a Python for loop visits (the elements of a
\* list, the keys of a dict), a TypeError for a number
PyIter(data) ==
    CASE data.t = "array"  -> Returned(data.v)
      [] data.t = "object" -> Returned(KeysOf(DOMAIN data.v))
      [] OTHER             -> Raised("TypeError")

\* f"{crypto['name']} ({crypto['symbol'].upper()}): ${crypto['current_price']}"
PriceLine(crypto) ==
    LET name == PyGet(crypto, "name")
        symbol == PyGet(crypto, "symbol")
        price == PyGet(crypto, "current_price")
    IN  IF name.raised THEN name
        ELSE IF symbol.raised THEN symbol
        ELSE IF price.raised THEN price
        ELSE Returned(name.value.v \o " (" \o Upper(symbol.value.v) \o "): $"
                          \o ToString(price.value.v))

RECURSIVE PriceLines(_, _)
\* the loop of lines 89-90: the lines appended so far, or the first exception
PriceLines(items, prices) ==
    IF Len(items) = 0 THEN Returned(prices)
    ELSE LET line == PriceLine(items[1])
         IN  IF line.raised THEN line
             ELSE PriceLines(Tail(items), Append(prices, line.value))

\* the list  prices  built by the loop of get_top_5_crypto_prices
top_5_price_lines(resp) ==
    LET items == PyIter(resp.data)
    IN  IF items.raised THEN items ELSE PriceLines(items.value, <<>>)

get_top_5_crypto_prices(resp) ==
    Ran(<<HttpGet(MarketsUrl)>>,
        IF IsRequestException(resp) THEN Returned(TOP5_UNAVAILABLE)
        ELSE LET prices == top_5_price_lines(resp)
             IN  IF prices.raised THEN prices ELSE Returned(Join(prices.value, "\n")))

\* crypto['id']
IdOf(crypto) ==
    LET id == PyGet(crypto, "id")
    IN  IF id.raised THEN id ELSE Returned(id.value.v)

RECURSIVE IdList(_, _)
\* the comprehension of line 105: the ids so far, or the first exception
IdList(items, ids) ==
    IF Len(items) = 0 THEN Returned(ids)
    ELSE LET id == IdOf(items[1])
         IN  IF id.raised THEN id
             ELSE IdList(Tail(items), Append(ids, id.value))

get_top_5_crypto_list(resp) ==
    Ran(<<HttpGet(MarketsUrl)>>,
        IF IsRequestException(resp) THEN Returned(<<>>)
        ELSE LET items == PyIter(resp.data)
             IN  IF items.raised THEN items ELSE IdList(items.value, <<>>))

(***************************************************************************)
(* parser.py: generate_price_chart                                         *)
(***************************************************************************)
UP_COLOR == "#26a69a"

DOWN_COLOR == "#ef5350"

NoChart == [t |-> "None"]

ChartUrl(crypto_id) ==
    "https://api.coingecko.com/api/v3/coins/" \o crypto_id \o "/market_chart?vs_currency=usd&days=1"

\* pd.DataFrame(rows, columns=['timestamp', 'price']): every row has the two
\* columns, or the construction raises ValueError
DataFrame(rows) ==
    IF rows.t = "array" /\ \A i \in 1..Len(rows.v) : rows.v[i].t = "array" /\ Len(rows.v[i].v) = 2
    THEN Returned([timestamp |-> [i \in 1..Len(rows.v) |-> rows.v[i].v[1].v],
                   price     |-> [i \in 1..Len(rows.v) |-> rows.v[i].v[2].v]])
    ELSE Raised("ValueError")

\* line_color: green when the last price is not below the first, red otherwise
LineColor(start_price, end_price) ==
    IF end_price >= start_price THEN UP_COLOR ELSE DOWN_COLOR

\* the bytes plt.savefig(buf, format='png') writes for the plotted line
PngBytes(df, line_color) == <<"PNG", line_color>> \o df.price

\* io.BytesIO(), buf.write(bytes), buf.seek(pos)
BytesIO == [t |-> "BytesIO", data |-> <<>>, pos |-> 0]

Write(buf, bytes) ==
    [buf EXCEPT !.data = SubSeq(buf.data, 1, buf.pos) \o bytes,
                !.pos = buf.pos + Len(bytes)]

Seek(buf, pos) == [buf EXCEPT !.pos = pos]

\* the plot saved to a buffer that is returned where the write left it
SavedChart_NoSeek(df, line_color) == Write(BytesIO, PngBytes(df, line_color))

\* lines 48-53: the plot saved to a buffer that is rewound before it is returned
SavedChart(df, line_color) == Seek(Write(BytesIO, PngBytes(df, line_color)), 0)

\* the body of the try block, lines 13-53: the steps taken and the outcome
ChartTry(crypto_id, resp) ==
    LET fetch == <<HttpGet(ChartUrl(crypto_id))>>
    IN  IF IsRequestException(resp) THEN Ran(fetch, Raised("RequestException"))
        ELSE LET data == resp.data
                 hasPrices == PyIn("prices", data)
             IN  IF hasPrices.raised THEN Ran(fetch, hasPrices)
                 ELSE IF ~hasPrices.value THEN Ran(fetch, Returned(NoChart))
                 ELSE IF data.t # "object" THEN Ran(fetch, Raised("TypeError"))
                 ELSE LET df == DataFrame(data.v["prices"])
                      IN  IF df.raised THEN Ran(fetch, df)
                          ELSE IF Len(df.value.price) = 0 THEN Ran(fetch, Raised("IndexError"))
                          ELSE LET start_price == df.value.price[1]
                                   end_price == df.value.price[Len(df.value.price)]
                                   line_color == LineColor(start_price, end_price)
                               IN  Ran(fetch \o <<[e |-> "render", color |-> line_color]>>,
                                       Returned(SavedChart(df.value, line_color)))

\* the except clauses, lines 55-60: every exception of the try block gives None
generate_price_chart(crypto_id, resp) ==
    LET r == ChartTry(crypto_id, resp)
    IN  IF r.raised THEN Ran(r.steps, Returned(NoChart)) ELSE r

(***************************************************************************)
(* The upstream API: the responses each endpoint may give.                 *)
(***************************************************************************)
Failed(status) == [status |-> status, data |-> EmptyObj]

Ok(data) == [status |-> "ok", data |-> data]

\* the answer recorded for an update that makes no request
NoRequest == [status |-> "no_request", data |-> EmptyObj]

TransportFailures == {Failed("connection_error"), Failed("http_error")}

\* simple/price: the identifier with its usd price, the identifier missing,
\* the identifier without a usd field, and bodies of an unexpected shape
PriceResponses(id) ==
    TransportFailures
      \cup {Ok(JObj(id :> JObj("usd" :> JNum(p)))) : p \in PriceVals}
      \cup {Ok(EmptyObj), Ok(JObj("dogecoin" :> JObj("usd" :> JNum(7)))),
            Ok(JObj(id :> EmptyObj)), Ok(JObj(id :> JObj("eur" :> JNum(7)))),
            Ok(JObj(id :> JNum(7))), Ok(JNum(0)), Ok(JArr(<<JStr(id)>>))}

CoinIds == <<"bitcoin", "ethereum", "tether", "binancecoin", "ripple", "solana", "cardano", "dogecoin">>

CoinNames == <<"Bitcoin", "Ethereum", "Tether", "BNB", "XRP", "Solana", "Cardano", "Dogecoin">>

CoinSymbols == <<"btc", "eth", "usdt", "bnb", "xrp", "sol", "ada", "doge">>

Coin(i) ==
    JObj([id |-> JStr(CoinIds[i]), name |-> JStr(CoinNames[i]),
          symbol |-> JStr(CoinSymbols[i]), current_price |-> JNum(100 - i)])

\* the lengths of the lists answered: none, one, and PerPage or more coins
MarketLens ==
    {n \in 0..(IF MaxMarkets < Len(CoinIds) THEN MaxMarkets ELSE Len(CoinIds)) :
        n <= 1 \/ n >= PerPage}

\* coins/markets: a list of n coins in rank order or in reverse, and bodies
\* of an unexpected shape (an entry without its fields, an error object)
MarketResponses ==
    TransportFailures
      \cup {Ok(JArr([i \in 1..n |-> Coin(i)])) : n \in MarketLens}
      \cup {Ok(JArr([i \in 1..n |-> Coin(n + 1 - i)])) : n \in {2, 3}}
      \cup {Ok(JArr(<<Coin(1), JObj([symbol |-> JStr("eth")])>>)),
            Ok(JObj([error |-> JStr("rate limited")])), Ok(JNum(0))}

Row(i, price) == JArr(<<JNum(1000 * i), JNum(price)>>)

SeriesOf(n) == {JArr([i \in 1..n |-> Row(i, f[i])]) : f \in [1..n -> SeriesVals]}

\* market_chart: a series of 0..MaxSeries points, no prices field, and bodies
\* of an unexpected shape
ChartResponses ==
    TransportFailures
      \cup {Ok(JObj([prices |-> rows])) : rows \in UNION {SeriesOf(n) : n \in 0..MaxSeries}}
      \cup {Ok(EmptyObj), Ok(JObj([prices |-> JArr(<<JArr(<<JNum(1000)>>)>>)])),
            Ok(JObj([prices |-> JNum(0)])), Ok(JNum(0))}

(***************************************************************************)
(* bot.py: the replies, and the record of the last handled update.         *)
(***************************************************************************)
ReplyText(kind, label, info) ==
    [e |-> "reply_text", kind |-> kind, label |-> label, info |-> info]

ReplyPhoto(photo, label) ==
    [e |-> "reply_photo", kind |-> "chart", label |-> label, info |-> "", photo |-> photo]

ReplyKeyboard(rows) ==
    [e |-> "reply_text", kind |-> "select", label |-> "", info |-> "", keyboard |-> rows]

Call(fn, arg) == [e |-> "call", fn |-> fn, arg |-> arg]

NoResult == Ran(<<>>, Returned(<<>>))

Handled(op, u, text, prior, resp, crypto_id, result, events, raised) ==
    [op |-> op, user |-> u, text |-> text, prior |-> prior, resp |-> resp,
     crypto_id |-> crypto_id, result |-> result, events |-> events, raised |-> raised]

Init ==
    /\ intent = [u \in Users |-> "none"]
    /\ last = Handled("init", 1, "", "none", NoRequest, "", NoResult, <<>>, FALSE)

(***************************************************************************)
(* bot.py: start, ask_for_crypto, price_command, chart_command, top5       *)
(***************************************************************************)
\* a /start that also resets the user's data
start_clearing_user_data(u) ==
    /\ last' = Handled("start", u, "/start", intent[u], NoRequest, "", NoResult,
                       <<ReplyText("welcome", "", "")>>, FALSE)
    /\ intent' = [intent EXCEPT ![u] = "none"]

start(u) ==
    /\ last' = Handled("start", u, "/start", intent[u], NoRequest, "", NoResult,
                       <<ReplyText("welcome", "", "")>>, FALSE)
    /\ UNCHANGED intent

FALLBACK_LIST == <<"bitcoin", "ethereum", "binancecoin", "ripple", "cardano">>

\* lines 37-43: the live list, or the fallback when fetching it raised
CryptoList(r) == IF r.raised THEN FALLBACK_LIST ELSE r.value

\* lines 45-48: Toncoin appended, one row per entry, each entry title-cased
KeyboardRows(crypto_list) ==
    LET final == Append(crypto_list, "Toncoin")
    IN  [k \in 1..Len(final) |-> <<Title(final[k])>>]

ask_for_crypto(op, u, i, resp) ==
    LET r == get_top_5_crypto_list(resp)
        rows == KeyboardRows(CryptoList(r))
    IN  /\ intent' = [intent EXCEPT ![u] = i]
        /\ last' = Handled(op, u, "", intent[u], resp, "", r,
                           <<Call("get_top_5_crypto_list", "")>> \o r.steps
                               \o <<ReplyKeyboard(rows)>>, FALSE)

price_command(u, resp) == ask_for_crypto("price_command", u, "get_price", resp)

chart_command(u, resp) == ask_for_crypto("chart_command", u, "get_chart", resp)

top5(u, resp) ==
    LET r == get_top_5_crypto_prices(resp)
        before == <<ReplyText("fetching_top5", "", ""), Call("get_top_5_crypto_prices", "")>>
                      \o r.steps
    IN  /\ last' = Handled("top5", u, "/top5", intent[u], resp, "", r,
                           IF r.raised THEN before
                           ELSE before \o <<ReplyText("top5", "", r.value)>>,
                           r.raised)
        /\ UNCHANGED intent

(***************************************************************************)
(* bot.py: crypto_handler                                                  *)
(***************************************************************************)
\* the name used as the API id without the Toncoin exception
CryptoId_Unmapped(crypto_name) == crypto_name

\* line 81: the user-friendly name mapped to the API id
CryptoId(crypto_name) ==
    IF crypto_name = "toncoin" THEN "the-open-network" ELSE crypto_name

\* line 87: the test that takes price_info for a failure text
LooksLikeFailure(price_info) ==
    LET lowered == Lower(price_info)
    IN  \/ Contains(lowered, "error")
        \/ Contains(lowered, "could not find")
        \/ Contains(lowered, "not available")

\* lines 87-90: the reply that follows get_crypto_price
PriceReply(crypto_name_raw, price_info) ==
    IF LooksLikeFailure(price_info)
    THEN ReplyText("price_failed", crypto_name_raw, "")
    ELSE ReplyText("price", crypto_name_raw, price_info)

\* lines 96-102: the reply that follows generate_price_chart
ChartReply(crypto_name_raw, chart_image) ==
    IF chart_image.t # "None"
    THEN ReplyPhoto(chart_image, crypto_name_raw)
    ELSE ReplyText("chart_failed", crypto_name_raw, "")

\* lines 84-90: what the handler sends and calls for a price, in order; an
\* exception of get_crypto_price ends the handler
PriceEvents(crypto_name_raw, crypto_id, r) ==
    <<ReplyText("checking", crypto_name_raw, ""), Call("get_crypto_price", crypto_id)>>
        \o r.steps
        \o (IF r.raised THEN <<>> ELSE <<PriceReply(crypto_name_raw, r.value)>>)

\* a handler that tests one generated chart and sends a second one
ChartEvents_FetchTwice(crypto_name_raw, crypto_id, r) ==
    <<ReplyText("generating", crypto_name_raw, ""), Call("generate_price_chart", crypto_id)>>
        \o r.steps
        \o (IF r.value.t # "None"
            THEN <<Call("generate_price_chart", crypto_id)>> \o r.steps
            ELSE <<>>)
        \o <<ChartReply(crypto_name_raw, r.value)>>

\* lines 93-102: what the handler sends and calls for a chart, in order
ChartEvents(crypto_name_raw, crypto_id, r) ==
    <<ReplyText("generating", crypto_name_raw, ""), Call("generate_price_chart", crypto_id)>>
        \o r.steps
        \o <<ChartReply(crypto_name_raw, r.value)>>

\* the request the handler makes goes to the endpoint of the pending intent
UpstreamFor(i, crypto_name_raw) ==
    CASE i = "get_price" -> PriceResponses(CryptoId(Lower(crypto_name_raw)))
      [] i = "get_chart" -> ChartResponses
      [] OTHER           -> {NoRequest}

crypto_handler(u, crypto_name_raw, resp) ==
    LET i == intent[u]
        crypto_name == Lower(crypto_name_raw)
        crypto_id == CryptoId(crypto_name)
    IN  CASE i = "get_price" ->
               LET r == get_crypto_price(crypto_id, resp)
               IN  /\ last' = Handled("crypto_handler", u, crypto_name_raw, i, resp, crypto_id,
                                      r, PriceEvents(crypto_name_raw, crypto_id, r), r.raised)
                   /\ intent' = IF r.raised THEN intent ELSE [intent EXCEPT ![u] = "none"]
          [] i = "get_chart" ->
               LET r == generate_price_chart(crypto_id, resp)
               IN  /\ last' = Handled("crypto_handler", u, crypto_name_raw, i, resp, crypto_id,
                                      r, ChartEvents(crypto_name_raw, crypto_id, r), FALSE)
                   /\ intent' = [intent EXCEPT ![u] = "none"]
          [] OTHER ->
               /\ last' = Handled("crypto_handler", u, crypto_name_raw, i, resp, "",
                                  NoResult, <<>>, FALSE)
               /\ UNCHANGED intent

Next ==
    \/ \E u \in Users : start(u)
    \/ \E u \in Users : \E resp \in MarketResponses : price_command(u, resp)
    \/ \E u \in Users : \E resp \in MarketResponses : chart_command(u, resp)
    \/ \E u \in Users : \E resp \in MarketResponses : top5(u, resp)
    \/ \E u \in Users : \E text \in Texts :
           \E resp \in UpstreamFor(intent[u], text) : crypto_handler(u, text, resp)

Spec == Init /\ [][Next]_vars

TypeOK ==
    /\ intent \in [Users -> {"none", "get_price", "get_chart"}]
    /\ last.user \in Users

(***************************************************************************)
(* The handled update, as the properties below read it.                    *)
(***************************************************************************)
Selected == last.op = "crypto_handler" /\ last.prior # "none"

PriceSelected == last.op = "crypto_handler" /\ last.prior = "get_price"

ChartSelected == last.op = "crypto_handler" /\ last.prior = "get_chart"

Asked == last.op \in {"price_command", "chart_command"}

FinalEvent == last.events[Len(last.events)]

IsReply(ev) == ev.e \in {"reply_text", "reply_photo"}

IsWork(ev) == ev.e \in {"http_get", "render"}

EventsOf(kind) == {j \in 1..Len(last.events) : last.events[j].e = kind}

(***************************************************************************)
(* C1: the intent is single-shot.  Once crypto_handler has processed a     *)
(* plain-text selection for a user whose intent was pending, that user's   *)
(* intent is absent again, whatever the outcome of the upstream call.      *)
(***************************************************************************)
C1_IntentClearedAfterSelection ==
    Selected => intent[last.user] = "none"

(***************************************************************************)
(* C2: a user's intent only ever changes along none -> get_price,          *)
(* none -> get_chart, get_price -> none, get_chart -> none, and never      *)
(* takes a value other than none, get_price, get_chart.                    *)
(***************************************************************************)
C2_OnlyThroughNone ==
    /\ [](intent \in [Users -> {"none", "get_price", "get_chart"}])
    /\ [][\A u \in Users :
             intent'[u] # intent[u] => (intent[u] = "none" \/ intent'[u] = "none")]_vars

(***************************************************************************)
(* C2, amended: the intent only takes the values none, get_price and       *)
(* get_chart; it becomes get_price only by that user's /price and          *)
(* get_chart only by that user's /chart, from any previous value (so       *)
(* get_price -> get_chart and get_chart -> get_price happen directly when  *)
(* the other command is issued before a selection), and it becomes none    *)
(* only by crypto_handler processing that user's selection; /start and     *)
(* /top5 never change it.                                                  *)
(***************************************************************************)
C2_IntentTransitions ==
    /\ [](intent \in [Users -> {"none", "get_price", "get_chart"}])
    /\ [][\A u \in Users :
             intent'[u] # intent[u] =>
                 /\ last'.user = u
                 /\ last'.prior = intent[u]
                 /\ \/ intent'[u] = "get_price" /\ last'.op = "price_command"
                    \/ intent'[u] = "get_chart" /\ last'.op = "chart_command"
                    \/ intent'[u] = "none" /\ last'.op = "crypto_handler"]_vars

\* /chart issued while get_price was pending: the intent went from get_price
\* to get_chart directly
C2_Witness ==
    /\ last.op = "chart_command"
    /\ last.prior = "get_price"
    /\ intent[last.user] = "get_chart"

(***************************************************************************)
(* C3: in the asset selection step the keyboard is the fallback list of 5  *)
(* identifiers plus Toncoin whenever the upstream markets request fails,   *)
(* and the live identifiers plus Toncoin when the live list is available.  *)
(***************************************************************************)
LiveListAvailable ==
    /\ last.resp.status = "ok"
    /\ last.resp.data.t = "array"
    /\ \A k \in 1..Len(last.resp.data.v) :
           last.resp.data.v[k].t = "object" /\ "id" \in DOMAIN last.resp.data.v[k].v

LiveIds == [k \in 1..Len(last.resp.data.v) |-> last.resp.data.v[k].v["id"].v]

C3_KeyboardFallsBack ==
    Asked =>
        /\ IsRequestException(last.resp) =>
               FinalEvent.keyboard = KeyboardRows(FALLBACK_LIST)
        /\ LiveListAvailable => FinalEvent.keyboard = KeyboardRows(LiveIds)

(***************************************************************************)
(* C4: when a selection is processed with intent get_price and getPrice    *)
(* fails (the "service unavailable" or the "price not available" result),  *)
(* the reply is the fixed "couldn't retrieve the price" message and the    *)
(* failure text is never presented as a price; with intent get_chart any   *)
(* failure gives the fixed "couldn't generate the chart" message.          *)
(***************************************************************************)
C4_FailureGivesFixedMessage ==
    /\ (PriceSelected /\ ~last.result.raised
           /\ last.result.value \in {SERVICE_UNAVAILABLE, PRICE_NOT_AVAILABLE})
          => FinalEvent = ReplyText("price_failed", last.text, "")
    /\ (ChartSelected /\ last.result.value.t = "None")
          => FinalEvent = ReplyText("chart_failed", last.text, "")

(***************************************************************************)
(* C5: no upstream failure is raised past the MarketDataClient /           *)
(* ChartRenderer boundary: get_crypto_price, get_top_5_crypto_prices,      *)
(* get_top_5_crypto_list and generate_price_chart return a value for       *)
(* every upstream outcome, bodies of an unexpected shape included.         *)
(***************************************************************************)
C5_NothingRaised == ~last.result.raised

(***************************************************************************)
(* C6: getPrice maps each upstream outcome to one result: the numeric      *)
(* price when the response holds the identifier with a nested usd value,   *)
(* the "price not available" message when the identifier is absent or has  *)
(* no usd field, the "service unavailable" message when the request fails. *)
(***************************************************************************)
PriceBody == last.resp.data

IdPresent ==
    /\ last.resp.status = "ok"
    /\ PriceBody.t = "object"
    /\ last.crypto_id \in DOMAIN PriceBody.v

IdAbsent ==
    /\ last.resp.status = "ok"
    /\ PriceBody.t = "object"
    /\ last.crypto_id \notin DOMAIN PriceBody.v

UsdPresent ==
    /\ IdPresent
    /\ PriceBody.v[last.crypto_id].t = "object"
    /\ "usd" \in DOMAIN PriceBody.v[last.crypto_id].v

UsdAbsent ==
    /\ IdPresent
    /\ PriceBody.v[last.crypto_id].t = "object"
    /\ "usd" \notin DOMAIN PriceBody.v[last.crypto_id].v

HasSeries ==
    /\ last.resp.status = "ok"
    /\ last.resp.data.t = "object"
    /\ "prices" \in DOMAIN last.resp.data.v
    /\ last.resp.data.v["prices"].t = "array"
    /\ \A k \in 1..Len(last.resp.data.v["prices"].v) :
           /\ last.resp.data.v["prices"].v[k].t = "array"
           /\ Len(last.resp.data.v["prices"].v[k].v) = 2

SeriesLen == Len(last.resp.data.v["prices"].v)

PricesMissing ==
    /\ last.resp.status = "ok"
    /\ last.resp.data.t = "object"
    /\ "prices" \notin DOMAIN last.resp.data.v

C7_ChartOrNoChart ==
    ChartSelected =>
        /\ ~last.result.raised
        /\ (HasSeries /\ SeriesLen > 0) =>
               /\ last.result.value.t = "BytesIO"
               /\ Len(last.result.value.data) > 0
               /\ last.result.value.pos = 0
        /\ ((HasSeries /\ SeriesLen = 0) \/ PricesMissing
               \/ last.resp.status \in {"connection_error", "http_error"}) =>
               last.result.value = [t |-> "None"]
        /\ last.result.value.t = "BytesIO" =>
               /\ HasSeries
               /\ \A k \in 1..SeriesLen :
                      last.result.value.data[2 + k] = last.resp.data.v["prices"].v[k].v[2].v
               /\ Len(last.result.value.data) = 2 + SeriesLen

\* a series of two points or more, rendered and sent as a photo
C7_Witness ==
    /\ ChartSelected
    /\ HasSeries
    /\ SeriesLen >= 2
    /\ last.result.value.t = "BytesIO"
    /\ FinalEvent.e = "reply_photo"

(***************************************************************************)
(* C8: the top-5 listing never holds more than 5 entries, whatever number  *)
(* of entries the upstream response contains, and its entries are in the   *)
(* order of the upstream response.                                         *)
(***************************************************************************)
C8_AtMostFiveInOrder ==
    (last.op = "top5" /\ last.resp.status = "ok" /\ last.resp.data.t = "array"
        /\ ~last.result.raised) =>
        LET lines == top_5_price_lines(last.resp).value
        IN  /\ last.result.value = Join(lines, "\n")
            /\ Len(lines) <= PerPage
            /\ \A k \in 1..Len(lines) :
                   Contains(lines[k], last.resp.data.v[k].v["name"].v \o " (")

(***************************************************************************)
(* C9: for every plain-text message processed while an intent is pending,  *)
(* the identifier passed on is the-open-network when the label is Toncoin  *)
(* in any letter case and the label's own lowercase form otherwise; the    *)
(* mapping is applied before the upstream call, and the label is not       *)
(* validated against the presented list.                                   *)
(***************************************************************************)
ExpectedId ==
    [text \in Texts |->
        CASE text \in {"Toncoin", "TONCOIN"} -> "the-open-network"
          [] text = "Bitcoin"                 -> "bitcoin"
          [] text = "The Error Coin"          -> "the error coin"]

C9_LabelToIdentifier ==
    Selected =>
        LET id == ExpectedId[last.text]
            fn == IF last.prior = "get_price" THEN "get_crypto_price"
                  ELSE "generate_price_chart"
            calls == EventsOf("call")
            gets == EventsOf("http_get")
        IN  /\ last.crypto_id = id
            /\ calls # {}
            /\ gets # {}
            /\ \A j \in calls : last.events[j] = [e |-> "call", fn |-> fn, arg |-> id]
            /\ \A j \in gets :
                   /\ \E c \in calls : c < j
                   /\ \/ Contains(last.events[j].url, "/simple/price?ids=" \o id \o "&")
                      \/ Contains(last.events[j].url, "/coins/" \o id \o "/market_chart")

\* TONCOIN, in capitals, selected for a price: the-open-network is asked for
C9_Witness ==
    /\ PriceSelected
    /\ last.text = "TONCOIN"
    /\ last.crypto_id = "the-open-network"
    /\ EventsOf("http_get") # {}

(***************************************************************************)
(* C10: when a chart request is processed, the single upstream fetch and   *)
(* the render pass complete before any reply is sent for that message; no  *)
(* reply precedes the render.                                              *)
(***************************************************************************)
C10_NoReplyBeforeRender ==
    ChartSelected =>
        \A i, j \in 1..Len(last.events) :
            (IsReply(last.events[i]) /\ IsWork(last.events[j])) => j < i

(***************************************************************************)
(* C10, amended: when a chart request is processed, exactly one upstream   *)
(* fetch and at most one render pass happen, and both complete before the  *)
(* final reply (the photo or the "couldn't generate the chart" message) is *)
(* sent; the only reply that precedes them is the "Generating 24h chart"   *)
(* progress notice, which is sent first.                                   *)
(***************************************************************************)
C10_WorkBeforeFinalReply ==
    ChartSelected =>
        LET n == Len(last.events)
        IN  /\ Cardinality(EventsOf("http_get")) = 1
            /\ Cardinality(EventsOf("render")) <= 1
            /\ {i \in 1..n : IsReply(last.events[i])} = {1, n}
            /\ n > 1
            /\ last.events[1].kind = "generating"
            /\ last.events[n].kind \in {"chart", "chart_failed"}
            /\ last.events[n].e = "reply_photo" <=> EventsOf("render") # {}
            /\ \A j \in 1..n : IsWork(last.events[j]) => (1 < j /\ j < n)

\* a chart fetched, rendered and sent: the progress notice came first
C10_Witness ==
    /\ ChartSelected
    /\ EventsOf("render") # {}
    /\ FinalEvent.e = "reply_photo"
    /\ last.events[1] = ReplyText("generating", last.text, "")

====
